---- MODULE Spec2Model ----
(***************************************************************************)
(* Session status derivation of the claude-code-ui daemon: the status      *)
(* state machine, the hook-signal override, the session registry kept by   *)
(* the SessionWatcher, the stale check, the startup sequence (transcript   *)
(* scan, signal load, reconciliation) and the "session" listener of        *)
(* serve.ts that hands change records to the stream server.                *)
(*                                                                         *)
(* Times are milliseconds.  One step of a handler is one action: the       *)
(* daemon is a single-threaded event loop and every handler modelled here  *)
(* is synchronous.                                                         *)
(***************************************************************************)
EXTENDS Integers, Sequences, FiniteSets, TLC

(* ---------------------------- bounds ----------------------------------- *)
\* clock granularity of the model (one clock step)
TimeStep == 5000
\* number of clock steps the model follows
MaxClockSteps == 4
\* number of environment inputs (transcript records, signal files, removals)
MaxInputs == 3

(* --------------------------- vocabulary -------------------------------- *)
Sessions == {"s1", "s2"}

TurnStates == {"working", "waiting_for_approval", "waiting_for_input"}

TranscriptEvents ==
  {"USER_PROMPT", "TOOL_RESULT", "ASSISTANT_STREAMING", "ASSISTANT_TOOL_USE", "TURN_END"}

StatusEvents == TranscriptEvents \cup {"STALE_TIMEOUT"}

SignalKinds == {"ended", "permission", "stop", "working"}

NoSignal == 0 - 1

STALE_TIMEOUT_MS == 15 * 1000

MaxTime == MaxClockSteps * TimeStep

\* the last clock value that leaves the stale timeout room to elapse
InputDeadline == MaxTime - (STALE_TIMEOUT_MS + TimeStep)

VARIABLES
  pc,            \* position of main(): "scan", "load", "publish", "ready"; "exited"
                 \* after process.exit
  running,       \* FALSE once the SIGINT handler has stopped the watcher
  now,           \* Date.now()
  budget,        \* environment inputs still to come
  sessions,      \* SessionWatcher.sessions : sessionId -> SessionState
  signals,       \* the signal maps (endedSignals, ...) : sessionId -> kind -> timestamp
  reconcileRuns, \* how many times reconcileSessionsWithSignals has run
  lastOp,        \* the handler that ran last, its arguments, and the sessions
                 \* it sent STALE_TIMEOUT to
  emitted,       \* "session" events emitted by the handler that ran last
  published,     \* operations the "session" listener handed to the stream server
  inflight,      \* operations handed over whose publishSession has not resolved yet
  inserted,      \* sessions an insert was handed to the stream server for
  dismissed,     \* sessions whose ended file the dismiss endpoint has written and
                 \* the signal watcher has not reported yet
  previousStatus,   \* notifications.ts previousStatus : sessionId -> effective status
  notifiedSessions, \* notifications.ts notifiedSessions : set of notification keys
  lastCall,         \* the effective status of each session in the last checkAndNotify call
  shown,            \* the sessions the last checkAndNotify call showed a notification for
  dbInstance,    \* sessionsDb.ts dbInstance
  dbPromise,     \* sessionsDb.ts dbPromise
  dbBody,        \* position of the async body that creates the StreamDB
  callers,       \* the pending and finished getSessionsDb() calls
  created        \* how many times createStreamDB and preload have been called

\* the state of the browser modules
uiVars == <<previousStatus, notifiedSessions, lastCall, shown, dbInstance, dbPromise, dbBody,
           callers, created>>

\* the state of the daemon
daemonVars == <<pc, running, now, budget, sessions, signals, reconcileRuns, lastOp, emitted,
               published, inflight, inserted, dismissed>>

vars == <<daemonVars, uiVars>>

(* ------------------------- status state machine ------------------------ *)
\* SessionState of a sessionId the registry does not hold
NoSession ==
  [phase |-> "none", turnState |-> "waiting_for_input", hasPendingToolUse |-> FALSE,
   lastActivityAt |-> 0, activeSignals |-> {}, status |-> "waiting", visiblePending |-> FALSE]

\* a fresh SessionState: the machine starts in waiting_for_input
NewSession(t) ==
  [NoSession EXCEPT !.phase = "live", !.lastActivityAt = t]

\* variant: any event counts as activity, in whatever state it arrives
Handled_anyRefreshes(turnState, pending, ev) == TRUE

\* the transition table of the machine; TRUE when (state, event) is a row
Handled(turnState, pending, ev) ==
  \/ turnState = "waiting_for_input" /\ ev = "USER_PROMPT"
  \/ turnState = "working" /\ ev \in {"ASSISTANT_TOOL_USE", "TURN_END", "ASSISTANT_STREAMING"}
  \/ turnState = "working" /\ ev = "STALE_TIMEOUT" /\ ~pending
  \/ turnState = "waiting_for_approval" /\ ev \in {"TOOL_RESULT", "STALE_TIMEOUT"}

\* variant: the stale timeout of waiting_for_approval resumes the turn
NextTurnState_staleApprovalResumes(turnState, ev) ==
  CASE turnState = "waiting_for_input" /\ ev = "USER_PROMPT" -> "working"
    [] turnState = "working" /\ ev = "ASSISTANT_TOOL_USE" -> "waiting_for_approval"
    [] turnState = "working" /\ ev = "TURN_END" -> "waiting_for_input"
    [] turnState = "working" /\ ev = "ASSISTANT_STREAMING" -> "working"
    [] turnState = "working" /\ ev = "STALE_TIMEOUT" -> "waiting_for_input"
    [] turnState = "waiting_for_approval" /\ ev = "TOOL_RESULT" -> "working"
    [] turnState = "waiting_for_approval" /\ ev = "STALE_TIMEOUT" -> "working"
    [] OTHER -> turnState

\* variant: the stale timeout leaves waiting_for_approval as it is
NextTurnState_approvalNeverStale(turnState, ev) ==
  CASE turnState = "waiting_for_input" /\ ev = "USER_PROMPT" -> "working"
    [] turnState = "working" /\ ev = "ASSISTANT_TOOL_USE" -> "waiting_for_approval"
    [] turnState = "working" /\ ev = "TURN_END" -> "waiting_for_input"
    [] turnState = "working" /\ ev = "ASSISTANT_STREAMING" -> "working"
    [] turnState = "working" /\ ev = "STALE_TIMEOUT" -> "waiting_for_input"
    [] turnState = "waiting_for_approval" /\ ev = "TOOL_RESULT" -> "working"
    [] OTHER -> turnState

\* variant: a tool use does not leave working
NextTurnState_stuckOnToolUse(turnState, ev) ==
  CASE turnState = "waiting_for_input" /\ ev = "USER_PROMPT" -> "working"
    [] turnState = "working" /\ ev = "TURN_END" -> "waiting_for_input"
    [] turnState = "working" /\ ev = "STALE_TIMEOUT" -> "waiting_for_input"
    [] turnState = "waiting_for_approval" /\ ev = "TOOL_RESULT" -> "working"
    [] turnState = "waiting_for_approval" /\ ev = "STALE_TIMEOUT" -> "waiting_for_input"
    [] OTHER -> turnState

NextTurnState(turnState, ev) ==
  CASE turnState = "waiting_for_input" /\ ev = "USER_PROMPT" -> "working"
    [] turnState = "working" /\ ev = "ASSISTANT_TOOL_USE" -> "waiting_for_approval"
    [] turnState = "working" /\ ev = "TURN_END" -> "waiting_for_input"
    [] turnState = "working" /\ ev = "ASSISTANT_STREAMING" -> "working"
    [] turnState = "working" /\ ev = "STALE_TIMEOUT" -> "waiting_for_input"
    [] turnState = "waiting_for_approval" /\ ev = "TOOL_RESULT" -> "working"
    [] turnState = "waiting_for_approval" /\ ev = "STALE_TIMEOUT" -> "waiting_for_input"
    [] OTHER -> turnState

\* variant: the self-loop on ASSISTANT_STREAMING does not count as activity
machineSend_streamingNoRefresh(s, ev, t) ==
  IF Handled(s.turnState, s.hasPendingToolUse, ev) /\ ev # "ASSISTANT_STREAMING"
  THEN [s EXCEPT !.turnState = NextTurnState(s.turnState, ev),
                 !.hasPendingToolUse = (NextTurnState(s.turnState, ev) = "waiting_for_approval"),
                 !.lastActivityAt = t]
  ELSE s

\* variant: a tool result wakes a session at rest
machineSend_toolResultResumes(s, ev, t) ==
  IF Handled(s.turnState, s.hasPendingToolUse, ev)
     \/ (s.turnState = "waiting_for_input" /\ ev = "TOOL_RESULT")
  THEN [s EXCEPT !.turnState = IF ev = "TOOL_RESULT" THEN "working" ELSE NextTurnState(s.turnState, ev),
                 !.hasPendingToolUse = (NextTurnState(s.turnState, ev) = "waiting_for_approval"),
                 !.lastActivityAt = t]
  ELSE s

\* one event through the machine: an unhandled pair leaves the state alone,
\* a handled one also refreshes lastActivityAt to the event's time
machineSend(s, ev, t) ==
  IF Handled(s.turnState, s.hasPendingToolUse, ev)
  THEN [s EXCEPT !.turnState = NextTurnState(s.turnState, ev),
                 !.hasPendingToolUse = (NextTurnState(s.turnState, ev) = "waiting_for_approval"),
                 !.lastActivityAt = t]
  ELSE s

\* variant: a session at rest is shown idle
machineStatus_idleAtRest(turnState, pending) ==
  CASE turnState = "working" -> [status |-> "working", hasPendingToolUse |-> pending]
    [] turnState = "waiting_for_approval" -> [status |-> "waiting", hasPendingToolUse |-> TRUE]
    [] OTHER -> [status |-> "idle", hasPendingToolUse |-> FALSE]

\* variant: waiting_for_approval is shown without its pending tool use
machineStatus_neverPending(turnState, pending) ==
  CASE turnState = "working" -> [status |-> "working", hasPendingToolUse |-> pending]
    [] OTHER -> [status |-> "waiting", hasPendingToolUse |-> FALSE]

\* status derived from the machine alone
machineStatus(turnState, pending) ==
  CASE turnState = "working" -> [status |-> "working", hasPendingToolUse |-> pending]
    [] turnState = "waiting_for_approval" -> [status |-> "waiting", hasPendingToolUse |-> TRUE]
    [] OTHER -> [status |-> "waiting", hasPendingToolUse |-> FALSE]

(* ------------------------ hook signal override ------------------------- *)
\* variant: the working signal is looked at before the ended signal
resolveStatus_workingFirst(turnState, pending, active) ==
  IF "working" \in active THEN [status |-> "working", hasPendingToolUse |-> FALSE]
  ELSE IF "ended" \in active THEN [status |-> "idle", hasPendingToolUse |-> FALSE]
  ELSE IF "permission" \in active THEN [status |-> "waiting", hasPendingToolUse |-> TRUE]
  ELSE IF "stop" \in active THEN [status |-> "waiting", hasPendingToolUse |-> FALSE]
  ELSE machineStatus(turnState, pending)

\* variant: the working signal is looked at before the stop signal
resolveStatus_workingBeforeStop(turnState, pending, active) ==
  IF "ended" \in active THEN [status |-> "idle", hasPendingToolUse |-> FALSE]
  ELSE IF "permission" \in active THEN [status |-> "waiting", hasPendingToolUse |-> TRUE]
  ELSE IF "working" \in active THEN [status |-> "working", hasPendingToolUse |-> FALSE]
  ELSE IF "stop" \in active THEN [status |-> "waiting", hasPendingToolUse |-> FALSE]
  ELSE machineStatus(turnState, pending)

\* "Hook signals are authoritative - override JSONL-derived status"
resolveStatus(turnState, pending, active) ==
  LET hasEndedSig == "ended" \in active
      pendingPermission == "permission" \in active
      hasStopSig == "stop" \in active
      hasWorkingSig == "working" \in active
  IN  IF hasEndedSig THEN [status |-> "idle", hasPendingToolUse |-> FALSE]
      ELSE IF pendingPermission THEN [status |-> "waiting", hasPendingToolUse |-> TRUE]
      ELSE IF hasStopSig THEN [status |-> "waiting", hasPendingToolUse |-> FALSE]
      ELSE IF hasWorkingSig THEN [status |-> "working", hasPendingToolUse |-> FALSE]
      ELSE machineStatus(turnState, pending)

\* store the resolved status on the session
withStatus(s) ==
  LET r == resolveStatus(s.turnState, s.hasPendingToolUse, s.activeSignals)
  IN  [s EXCEPT !.status = r.status, !.visiblePending = r.hasPendingToolUse]

\* the kinds the signal maps hold for a session
loadedKinds(sigmap) == {k \in SignalKinds : sigmap[k] # NoSignal}

\* variant: a kind that is already in the map keeps its first timestamp
setSignal_keepFirst(sigmap, kind, t) ==
  IF sigmap[kind] = NoSignal THEN [sigmap EXCEPT ![kind] = t] ELSE sigmap

\* Map.set on the map of the signal's kind: the new entry replaces the old one
setSignal(sigmap, kind, t) == [sigmap EXCEPT ![kind] = t]

\* what consumers see of a session
projection(s) ==
  [status |-> s.status, hasPendingToolUse |-> s.visiblePending, lastActivityAt |-> s.lastActivityAt]

(* --------------------------- registry steps ---------------------------- *)
\* variant: a removed session is created again by its next transcript event
eventStep_resurrects(s, sigmap, ev, t) ==
  LET base == IF s.phase # "live" THEN NewSession(t) ELSE s
      moved == machineSend(base, ev, t)
  IN  withStatus([moved EXCEPT !.activeSignals = loadedKinds(sigmap)])

\* variant: the signals the maps hold are not looked at
eventStep_ignoresMaps(s, sigmap, ev, t) ==
  IF s.phase = "deleted" THEN s
  ELSE LET base == IF s.phase = "none" THEN NewSession(t) ELSE s
       IN  withStatus(machineSend(base, ev, t))

\* handleFile: one transcript event for a session
eventStep(s, sigmap, ev, t) ==
  IF s.phase = "deleted" THEN s
  ELSE LET base == IF s.phase = "none" THEN NewSession(t) ELSE s
           moved == machineSend(base, ev, t)
       IN  withStatus([moved EXCEPT !.activeSignals = loadedKinds(sigmap)])

\* variant: an ended signal leaves the other flags of the session set
signalStep_endedKeepsOthers(s, kind) ==
  IF s.phase # "live" THEN s
  ELSE withStatus([s EXCEPT !.activeSignals = @ \cup {kind}])

\* variant: a stop signal also ends the turn of the machine
signalStep_stopEndsTurn(s, kind) ==
  IF s.phase # "live" THEN s
  ELSE IF kind = "ended"
       THEN withStatus([s EXCEPT !.activeSignals = {"ended"}])
       ELSE IF kind = "stop"
            THEN withStatus([s EXCEPT !.activeSignals = @ \cup {kind},
                                      !.turnState = "waiting_for_input",
                                      !.hasPendingToolUse = FALSE])
            ELSE withStatus([s EXCEPT !.activeSignals = @ \cup {kind}])

\* variant: a signal that arrives after the ended signal takes its place
signalStep_laterReplacesEnded(s, kind) ==
  IF s.phase # "live" THEN s
  ELSE IF kind = "ended" \/ "ended" \in s.activeSignals
       THEN withStatus([s EXCEPT !.activeSignals = {kind}])
       ELSE withStatus([s EXCEPT !.activeSignals = @ \cup {kind}])

\* variant: the signal is recorded on the session but the status is not resolved again
signalStep_noResolve(s, kind) ==
  IF s.phase # "live" THEN s
  ELSE IF kind = "ended"
       THEN [s EXCEPT !.activeSignals = {"ended"}]
       ELSE [s EXCEPT !.activeSignals = @ \cup {kind}]

\* variant: a signal for an unknown sessionId creates the session
signalStep_creates(s, kind) ==
  IF s.phase = "deleted" THEN s
  ELSE LET base == IF s.phase = "none" THEN NewSession(0) ELSE s
       IN  IF kind = "ended"
           THEN withStatus([base EXCEPT !.activeSignals = {"ended"}])
           ELSE withStatus([base EXCEPT !.activeSignals = @ \cup {kind}])

\* handleSignalFile: the session part; an unknown session is not touched
signalStep(s, kind) ==
  IF s.phase # "live" THEN s
  ELSE IF kind = "ended"
       THEN withStatus([s EXCEPT !.activeSignals = {"ended"}])
       ELSE withStatus([s EXCEPT !.activeSignals = @ \cup {kind}])

\* variant: only the ended signal is reconciled
reconcileStep_endedOnly(s, sigmap) ==
  IF s.phase = "live" /\ sigmap["ended"] # NoSignal
  THEN withStatus([s EXCEPT !.activeSignals = {"ended"}])
  ELSE s

\* reconcileSessionsWithSignals: the session part
reconcileStep(s, sigmap) ==
  IF s.phase # "live" THEN s
  ELSE withStatus([s EXCEPT !.activeSignals = loadedKinds(sigmap)])

\* variant: the age is taken from the start of the daemon, not from lastActivityAt
isStale_sinceStart(s, t) ==
  /\ s.phase = "live"
  /\ t > STALE_TIMEOUT_MS
  /\ \/ s.turnState = "working" /\ ~s.hasPendingToolUse
     \/ s.turnState = "waiting_for_approval"

\* variant: only waiting_for_approval is looked at
isStale_approvalOnly(s, t) ==
  /\ s.phase = "live"
  /\ t - s.lastActivityAt > STALE_TIMEOUT_MS
  /\ s.turnState = "waiting_for_approval"

\* variant: the elapsed time is computed the wrong way round
isStale_wrongSign(s, t) ==
  /\ s.phase = "live"
  /\ s.lastActivityAt - t > STALE_TIMEOUT_MS
  /\ \/ s.turnState = "working" /\ ~s.hasPendingToolUse
     \/ s.turnState = "waiting_for_approval"

\* the stale check for one session
isStale(s, t) ==
  LET timeSinceActivity == t - s.lastActivityAt
  IN  /\ s.phase = "live"
      /\ timeSinceActivity > STALE_TIMEOUT_MS
      /\ \/ s.turnState = "working" /\ ~s.hasPendingToolUse
         \/ s.turnState = "waiting_for_approval"

\* variant: every old session is forced to waiting_for_input, whatever its state
staleStep_anyState(s, t) ==
  IF s.phase = "live" /\ t - s.lastActivityAt > STALE_TIMEOUT_MS
  THEN withStatus([s EXCEPT !.turnState = "waiting_for_input",
                            !.hasPendingToolUse = FALSE, !.lastActivityAt = t])
  ELSE s

staleStep(s, t) ==
  IF isStale(s, t) THEN withStatus(machineSend(s, "STALE_TIMEOUT", t)) ELSE s

(* ------------------------- change records ------------------------------ *)
\* variant: the first record of a session is an "updated" one
changeRecord_noCreated(sid, before, after) ==
  IF before.phase = "live" /\ after.phase = "deleted" THEN <<[type |-> "deleted", sessionId |-> sid]>>
  ELSE IF after.phase = "live" /\ (before.phase = "none" \/ projection(before) # projection(after))
       THEN <<[type |-> "updated", sessionId |-> sid]>>
  ELSE <<>>

\* the change record a step on one session emits, as a sequence of 0 or 1
changeRecord(sid, before, after) ==
  IF before.phase = "none" /\ after.phase = "live" THEN <<[type |-> "created", sessionId |-> sid]>>
  ELSE IF before.phase = "live" /\ after.phase = "deleted" THEN <<[type |-> "deleted", sessionId |-> sid]>>
  ELSE IF after.phase = "live" /\ projection(before) # projection(after)
       THEN <<[type |-> "updated", sessionId |-> sid]>>
  ELSE <<>>

\* handleSignalFile: an ended signal found for a session the watcher holds is
\* followed by an "updated" event without a comparison; the other kinds emit
\* when what consumers see has changed
signalRecord(sid, before, after, kind) ==
  IF before.phase = "live" /\ kind = "ended"
  THEN <<[type |-> "updated", sessionId |-> sid]>>
  ELSE changeRecord(sid, before, after)

\* reconcileSessionsWithSignals: the sessions an "updated" event is emitted for
reconcileEmits(before, after, sigmap) ==
  /\ before.phase = "live"
  /\ \/ sigmap["ended"] # NoSignal
     \/ projection(before) # projection(after)

\* serve.ts watcher.on("session"): created -> insert, deleted -> delete, else update
operationOf(type) ==
  IF type = "created" THEN "insert" ELSE IF type = "deleted" THEN "delete" ELSE "update"

\* serve.ts isRecentSession, at time t
MAX_AGE_MS == 24 * 60 * 60 * 1000

isRecentSession(s, t) == t - s.lastActivityAt < MAX_AGE_MS

\* the listener drops the event of a session that is not recent, unless the
\* event is "deleted"; the session is in the state the handler left it in
RECURSIVE onSession(_)
onSession(events) ==
  IF events = <<>> THEN <<>>
  ELSE (IF ~isRecentSession(sessions'[Head(events).sessionId], now) /\ Head(events).type # "deleted"
        THEN <<>>
        ELSE <<[operation |-> operationOf(Head(events).type),
                sessionId |-> Head(events).sessionId]>>)
       \o onSession(Tail(events))

\* the sessions a sequence of stream operations inserts
insertedBy(ops) == {ops[i].sessionId : i \in {j \in DOMAIN ops : ops[j].operation = "insert"}}

\* iteration order of the session map
SessionOrder == <<"s1", "s2">>

\* the records of a step over several sessions, in the order of the session map
RECURSIVE recordsOf(_, _, _)
recordsOf(order, before, after) ==
  IF order = <<>> THEN <<>>
  ELSE changeRecord(Head(order), before[Head(order)], after[Head(order)])
       \o recordsOf(Tail(order), before, after)

\* an "updated" event for each session of the map that is in the set
RECURSIVE updatedFor(_, _)
updatedFor(order, sids) ==
  IF order = <<>> THEN <<>>
  ELSE (IF Head(order) \in sids THEN <<[type |-> "updated", sessionId |-> Head(order)]>> ELSE <<>>)
       \o updatedFor(Tail(order), sids)

\* the initial publication: an insert for each session of the set
RECURSIVE insertsFor(_, _)
insertsFor(order, sids) ==
  IF order = <<>> THEN <<>>
  ELSE (IF Head(order) \in sids THEN <<[operation |-> "insert", sessionId |-> Head(order)]>> ELSE <<>>)
       \o insertsFor(Tail(order), sids)

(* ------------------------------ Init ----------------------------------- *)
\* the browser modules as loaded: nothing notified, no database
Callers == {"c1", "c2", "c3", "c4"}

\* dbInstance = null
NoDb == 0

UiInit ==
  /\ previousStatus = [sid \in Sessions |-> "none"]
  /\ notifiedSessions = {}
  /\ lastCall = [sid \in Sessions |-> "none"]
  /\ shown = {}
  /\ dbInstance = NoDb
  /\ dbPromise = "null"
  /\ dbBody = "none"
  /\ callers = [c \in Callers |-> [state |-> "idle", db |-> NoDb]]
  /\ created = [createStreamDB |-> 0, preload |-> 0]

Init ==
  /\ pc = "scan"
  /\ running = TRUE
  /\ now = 0
  /\ budget = MaxInputs
  /\ sessions = [sid \in Sessions |-> NoSession]
  /\ signals = [sid \in Sessions |-> [k \in SignalKinds |-> NoSignal]]
  /\ reconcileRuns = 0
  /\ lastOp = [op |-> "init", sessionId |-> "", arg |-> "", sent |-> {}]
  /\ emitted = <<>>
  /\ published = <<>>
  /\ inflight = <<>>
  /\ inserted = {}
  /\ dismissed = {}
  /\ UiInit

Steady == pc \in {"publish", "ready"}

CanInput == running /\ budget > 0

(* ----------------------------- actions --------------------------------- *)
\* watcher "add"/"change" of a transcript: handleFile applies one new record.
\* During start() this is the initial scan replaying existing transcripts.
ApplyEvent(sid, ev) ==
  /\ CanInput
  /\ pc \in {"scan", "publish", "ready"}
  /\ LET after == eventStep(sessions[sid], signals[sid], ev, now)
         recs == changeRecord(sid, sessions[sid], after)
     IN  /\ sessions' = [sessions EXCEPT ![sid] = after]
         /\ emitted' = recs
         /\ published' = onSession(recs)
  /\ budget' = budget - 1
  /\ lastOp' = [op |-> "applyEvent", sessionId |-> sid, arg |-> ev, sent |-> {}]
  /\ UNCHANGED <<pc, running, now, signals, reconcileRuns, inflight, dismissed, uiVars>>
  /\ inserted' = inserted \cup insertedBy(published')

\* chokidar "ready": the initial transcript scan is complete
ScanDone ==
  /\ running
  /\ pc = "scan"
  /\ pc' = "load"
  /\ lastOp' = [op |-> "scanDone", sessionId |-> "", arg |-> "", sent |-> {}]
  /\ emitted' = <<>>
  /\ published' = <<>>
  /\ UNCHANGED <<running, now, budget, sessions, signals, reconcileRuns, inflight, dismissed, uiVars>>
  /\ inserted' = inserted \cup insertedBy(published')

\* loadExistingSignals: one signal file found on disk goes into the maps
LoadSignal(sid, kind) ==
  /\ CanInput
  /\ pc = "load"
  /\ signals[sid][kind] = NoSignal
  /\ signals' = [signals EXCEPT ![sid] = setSignal(signals[sid], kind, now)]
  /\ budget' = budget - 1
  /\ lastOp' = [op |-> "loadSignal", sessionId |-> sid, arg |-> kind, sent |-> {}]
  /\ emitted' = <<>>
  /\ published' = <<>>
  /\ UNCHANGED <<pc, running, now, sessions, reconcileRuns, inflight, dismissed, uiVars>>
  /\ inserted' = inserted \cup insertedBy(published')

\* reconcileSessionsWithSignals, called once loadExistingSignals is through
Reconcile ==
  /\ running
  /\ pc = "load"
  /\ LET after == [sid \in Sessions |-> reconcileStep(sessions[sid], signals[sid])]
         touched == {sid \in Sessions : reconcileEmits(sessions[sid], after[sid], signals[sid])}
         recs == updatedFor(SessionOrder, touched)
     IN  /\ sessions' = after
         /\ emitted' = recs
         /\ published' = onSession(recs)
  /\ pc' = "publish"
  /\ reconcileRuns' = reconcileRuns + 1
  /\ lastOp' = [op |-> "reconcile", sessionId |-> "", arg |-> "", sent |-> {}]
  /\ UNCHANGED <<running, now, budget, signals, inflight, dismissed, uiVars>>
  /\ inserted' = inserted \cup insertedBy(published')

\* main(): after watcher.start() every session is published as an insert
PublishInitial ==
  /\ running
  /\ pc = "publish"
  /\ pc' = "ready"
  /\ LET recentSessions == {sid \in Sessions : /\ sessions[sid].phase = "live"
                                                /\ isRecentSession(sessions[sid], now)}
     IN  published' = insertsFor(SessionOrder, recentSessions)
  /\ emitted' = <<>>
  /\ lastOp' = [op |-> "publishInitial", sessionId |-> "", arg |-> "", sent |-> {}]
  /\ UNCHANGED <<running, now, budget, sessions, signals, reconcileRuns, inflight, dismissed, uiVars>>
  /\ inserted' = inserted \cup insertedBy(published')

\* variant: the signal is applied to every session the watcher holds
ApplySignal_broadcast(sid, kind) ==
  /\ CanInput
  /\ Steady
  /\ LET after == [x \in Sessions |-> signalStep(sessions[x], kind)]
         recs == signalRecord(sid, sessions[sid], after[sid], kind)
     IN  /\ sessions' = after
         /\ emitted' = recs
         /\ published' = onSession(recs)
  /\ signals' = [signals EXCEPT ![sid] = setSignal(signals[sid], kind, now)]
  /\ budget' = budget - 1
  /\ lastOp' = [op |-> "applySignal", sessionId |-> sid, arg |-> kind, sent |-> {}]
  /\ UNCHANGED <<pc, running, now, reconcileRuns, inflight, dismissed, uiVars>>
  /\ inserted' = inserted \cup insertedBy(published')

\* signal watcher "add"/"change": handleSignalFile
ApplySignal(sid, kind) ==
  /\ CanInput
  /\ Steady
  /\ LET after == signalStep(sessions[sid], kind)
         recs == signalRecord(sid, sessions[sid], after, kind)
     IN  /\ sessions' = [sessions EXCEPT ![sid] = after]
         /\ emitted' = recs
         /\ published' = onSession(recs)
  /\ signals' = [signals EXCEPT ![sid] = setSignal(signals[sid], kind, now)]
  /\ budget' = budget - 1
  /\ lastOp' = [op |-> "applySignal", sessionId |-> sid, arg |-> kind, sent |-> {}]
  /\ UNCHANGED <<pc, running, now, reconcileRuns, inflight, dismissed, uiVars>>
  /\ inserted' = inserted \cup insertedBy(published')

\* watcher "unlink" of a transcript
Remove(sid) ==
  /\ CanInput
  /\ Steady
  /\ sessions[sid].phase = "live"
  /\ LET after == [sessions[sid] EXCEPT !.phase = "deleted"]
         recs == changeRecord(sid, sessions[sid], after)
     IN  /\ sessions' = [sessions EXCEPT ![sid] = after]
         /\ emitted' = recs
         /\ published' = onSession(recs)
  /\ budget' = budget - 1
  /\ lastOp' = [op |-> "remove", sessionId |-> sid, arg |-> "", sent |-> {}]
  /\ UNCHANGED <<pc, running, now, signals, reconcileRuns, inflight, dismissed, uiVars>>
  /\ inserted' = inserted \cup insertedBy(published')

\* the periodic stale check over all sessions
CheckStale ==
  /\ running
  /\ Steady
  /\ LET after == [sid \in Sessions |-> staleStep(sessions[sid], now)]
         recs == recordsOf(SessionOrder, sessions, after)
     IN  /\ sessions' = after
         /\ emitted' = recs
         /\ published' = onSession(recs)
  /\ lastOp' = [op |-> "checkStale", sessionId |-> "", arg |-> "",
                sent |-> {sid \in Sessions : isStale(sessions[sid], now)}]
  /\ UNCHANGED <<pc, running, now, budget, signals, reconcileRuns, inflight, dismissed, uiVars>>
  /\ inserted' = inserted \cup insertedBy(published')

\* time passes
AdvanceClock ==
  /\ running
  /\ now + TimeStep <= MaxTime
  /\ now' = now + TimeStep
  /\ lastOp' = [op |-> "clock", sessionId |-> "", arg |-> "", sent |-> {}]
  /\ emitted' = <<>>
  /\ published' = <<>>
  /\ UNCHANGED <<pc, running, budget, sessions, signals, reconcileRuns, inflight, dismissed, uiVars>>
  /\ inserted' = inserted \cup insertedBy(published')

\* SIGINT: watcher.stop()
Stop ==
  /\ running
  /\ running' = FALSE
  /\ lastOp' = [op |-> "stop", sessionId |-> "", arg |-> "", sent |-> {}]
  /\ emitted' = <<>>
  /\ published' = <<>>
  /\ UNCHANGED <<pc, now, budget, sessions, signals, reconcileRuns, inflight, dismissed, uiVars>>
  /\ inserted' = inserted \cup insertedBy(published')

\* the steps of the daemon that concern the sessions of S
NextFor(S) ==
  \/ \E sid \in S, ev \in TranscriptEvents : ApplyEvent(sid, ev)
  \/ ScanDone
  \/ \E sid \in S, kind \in SignalKinds : LoadSignal(sid, kind)
  \/ Reconcile
  \/ PublishInitial
  \/ \E sid \in S, kind \in SignalKinds : ApplySignal(sid, kind)
  \/ \E sid \in S : Remove(sid)
  \/ CheckStale
  \/ AdvanceClock

Next == NextFor(Sessions) \/ Stop

Spec == Init /\ [][Next]_vars

\* A daemon that is never interrupted, watching one session: startup runs to
\* the end, the clock advances and the stale check interval keeps firing.
LiveSessions == {"s1"}

LiveNext == NextFor(LiveSessions)

LiveSpec ==
  /\ Init
  /\ [][LiveNext]_vars
  /\ WF_vars(ScanDone)
  /\ WF_vars(Reconcile)
  /\ WF_vars(PublishInitial)
  /\ WF_vars(AdvanceClock)
  /\ WF_vars(CheckStale)

TypeOK ==
  /\ pc \in {"scan", "load", "publish", "ready", "exited"}
  /\ running \in BOOLEAN
  /\ now \in 0..MaxTime
  /\ budget \in 0..MaxInputs
  /\ \A sid \in Sessions :
        /\ sessions[sid].phase \in {"none", "live", "deleted"}
        /\ sessions[sid].turnState \in TurnStates
        /\ sessions[sid].activeSignals \subseteq SignalKinds
        /\ sessions[sid].status \in {"working", "waiting", "idle"}
  /\ reconcileRuns \in 0..1

(* ============================== claims ================================= *)
Live(sid) == sessions[sid].phase = "live"

\* no signal of any kind is held for the session, on the session or in the maps
NoSignals(sid) == sessions[sid].activeSignals = {} /\ loadedKinds(signals[sid]) = {}

\* C1: a session whose activeSignals contains ended has effectiveStatus idle
\* and a visible hasPendingToolUse of false, whatever the machine state and
\* whatever other signals are active.
C1_EndedForcesIdle ==
  \A sid \in Sessions :
    (sessions[sid].phase # "none" /\ "ended" \in sessions[sid].activeSignals)
      => (sessions[sid].status = "idle" /\ sessions[sid].visiblePending = FALSE)

\* working and ended active together on a session whose machine is working
C1_Witness ==
  \E sid \in Sessions :
    /\ Live(sid)
    /\ {"ended", "working"} \subseteq sessions[sid].activeSignals
    /\ sessions[sid].turnState = "working"
    /\ sessions[sid].status = "idle"

\* C2: without ended, the status is (waiting, pending) under permission, else
\* (waiting, not pending) under stop, else (working, not pending) under
\* working, else what the machine state gives: working -> working,
\* waiting_for_approval -> (waiting, pending), waiting_for_input -> (waiting,
\* not pending).
C2_PriorityTable ==
  \A sid \in Sessions :
    LET s == sessions[sid]
        a == s.activeSignals
    IN  (s.phase # "none" /\ "ended" \notin a) =>
          IF "permission" \in a THEN s.status = "waiting" /\ s.visiblePending = TRUE
          ELSE IF "stop" \in a THEN s.status = "waiting" /\ s.visiblePending = FALSE
          ELSE IF "working" \in a THEN s.status = "working" /\ s.visiblePending = FALSE
          ELSE /\ s.turnState = "working" => s.status = "working"
               /\ s.turnState = "waiting_for_approval" =>
                    (s.status = "waiting" /\ s.visiblePending = TRUE)
               /\ s.turnState = "waiting_for_input" =>
                    (s.status = "waiting" /\ s.visiblePending = FALSE)

\* stop wins over working on a session whose machine is working
C2_Witness ==
  \E sid \in Sessions :
    /\ Live(sid)
    /\ sessions[sid].activeSignals = {"stop", "working"}
    /\ sessions[sid].turnState = "working"
    /\ sessions[sid].status = "waiting"

\* C3: the status and the visible hasPendingToolUse stored on a session are
\* the resolver's value for the session's current turnState, hasPendingToolUse
\* and activeSignals.
C3_StatusIsResolved ==
  \A sid \in Sessions :
    LET s == sessions[sid]
        r == resolveStatus(s.turnState, s.hasPendingToolUse, s.activeSignals)
    IN  s.phase # "none" => (s.status = r.status /\ s.visiblePending = r.hasPendingToolUse)

\* a signal has just changed the status away from what the machine alone gives
C3_Witness ==
  \E sid \in Sessions :
    /\ lastOp.op = "applySignal" /\ lastOp.sessionId = sid
    /\ Live(sid)
    /\ emitted # <<>>
    /\ sessions[sid].status #
         machineStatus(sessions[sid].turnState, sessions[sid].hasPendingToolUse).status

\* C4: with no signal for the session, applyEvent takes waiting_for_input to
\* working on USER_PROMPT, working to waiting_for_approval on
\* ASSISTANT_TOOL_USE, waiting_for_approval to working on TOOL_RESULT and
\* working to waiting_for_input on TURN_END, and the status follows.
C4_Step(sid) ==
  LET s == sessions[sid]
      n == sessions'[sid]
      ev == lastOp'.arg
  IN  (/\ lastOp'.op = "applyEvent" /\ lastOp'.sessionId = sid
       /\ s.phase # "deleted"
       /\ NoSignals(sid)) =>
        /\ (s.turnState = "waiting_for_input" /\ ev = "USER_PROMPT") =>
              (n.turnState = "working" /\ n.status = "working")
        /\ (s.turnState = "working" /\ ev = "ASSISTANT_TOOL_USE") =>
              (n.turnState = "waiting_for_approval" /\ n.hasPendingToolUse
               /\ n.status = "waiting" /\ n.visiblePending)
        /\ (s.turnState = "waiting_for_approval" /\ ev = "TOOL_RESULT") =>
              (n.turnState = "working" /\ ~n.hasPendingToolUse /\ n.status = "working")
        /\ (s.turnState = "working" /\ ev = "TURN_END") =>
              (n.turnState = "waiting_for_input" /\ n.status = "waiting" /\ ~n.visiblePending)

C4_Transitions == [][\A sid \in Sessions : C4_Step(sid)]_vars

\* scenario A: USER_PROMPT then ASSISTANT_TOOL_USE on an unseen session
C4_Witness ==
  \E sid \in Sessions :
    /\ lastOp.op = "applyEvent" /\ lastOp.sessionId = sid /\ lastOp.arg = "ASSISTANT_TOOL_USE"
    /\ budget = MaxInputs - 2
    /\ NoSignals(sid)
    /\ sessions[sid].turnState = "waiting_for_approval"
    /\ sessions[sid].status = "waiting" /\ sessions[sid].visiblePending

\* C5: a stale check moves every session that is working without a pending
\* tool use and whose lastActivityAt is more than 15 s old to
\* waiting_for_input.
C5_StaleWorkingMoves ==
  [][lastOp'.op = "checkStale" =>
       \A sid \in Sessions :
         (/\ Live(sid)
          /\ sessions[sid].turnState = "working"
          /\ ~sessions[sid].hasPendingToolUse
          /\ now - sessions[sid].lastActivityAt > STALE_TIMEOUT_MS)
           => sessions'[sid].turnState = "waiting_for_input"]_vars

\* the stale check has just moved a session that one transcript event had
\* left working
C5_Witness ==
  /\ lastOp.op = "checkStale"
  /\ budget = MaxInputs - 1
  /\ \E sid \in Sessions :
       /\ sid \in lastOp.sent
       /\ sessions[sid].turnState = "waiting_for_input"
       /\ sessions[sid].lastActivityAt = now
       /\ sessions[sid].status = "waiting"

\* C6: a stale check never sends STALE_TIMEOUT to a session that is in
\* waiting_for_input and never changes its turnState or lastActivityAt,
\* however old the lastActivityAt is.
C6_WaitingForInputUntouched ==
  [][lastOp'.op = "checkStale" =>
       \A sid \in Sessions :
         (sessions[sid].phase # "none" /\ sessions[sid].turnState = "waiting_for_input") =>
           /\ sid \notin lastOp'.sent
           /\ sessions'[sid].turnState = "waiting_for_input"
           /\ sessions'[sid].lastActivityAt = sessions[sid].lastActivityAt]_vars

\* a stale check has run over a waiting_for_input session older than 15 s
C6_Witness ==
  /\ lastOp.op = "checkStale"
  /\ \E sid \in Sessions :
       /\ Live(sid)
       /\ sessions[sid].turnState = "waiting_for_input"
       /\ now - sessions[sid].lastActivityAt > STALE_TIMEOUT_MS

\* the environment has nothing more to deliver and the clock has room for the
\* stale timeout to elapse
Quiet == budget = 0 /\ now <= InputDeadline

\* no working signal is active on the session or held in the signal maps
NoWorkingSignal(sid) ==
  "working" \notin sessions[sid].activeSignals /\ signals[sid]["working"] = NoSignal

\* C7 as stated, at the moment it must have come true: once a stale check has
\* run more than 15 s after the last activity of a session that gets no more
\* transcript events or signals, the session's status is not working.
C7_Original ==
  \A sid \in Sessions :
    (/\ lastOp.op = "checkStale"
     /\ budget = 0
     /\ Live(sid)
     /\ now - sessions[sid].lastActivityAt > STALE_TIMEOUT_MS)
      => sessions[sid].status # "working"

\* C7: with the stale check firing fairly, a session that gets no more
\* transcript events or signals and for which no working signal is active or
\* loaded does not stay at status working.
C7_LeavesWorking ==
  \A sid \in Sessions :
    (Quiet /\ Live(sid) /\ sessions[sid].status = "working" /\ NoWorkingSignal(sid))
      ~> (sessions[sid].status # "working")

\* the stale check has taken a quiet session without a working signal out of working
C7_Witness ==
  /\ lastOp.op = "checkStale"
  /\ budget = 0
  /\ \E sid \in Sessions :
       /\ sid \in lastOp.sent
       /\ NoWorkingSignal(sid)
       /\ sessions[sid].lastActivityAt > STALE_TIMEOUT_MS
       /\ sessions[sid].status = "waiting"

\* the orders in which a set of kinds can be applied one at a time
Orders(kinds) ==
  {f \in [1..Cardinality(kinds) -> kinds] : \A i, j \in 1..Cardinality(kinds) : f[i] = f[j] => i = j}

\* the orders that follow the signal files' modification times
TimeOrders(sigmap) ==
  {f \in Orders(loadedKinds(sigmap)) :
     \A i, j \in 1..Len(f) : i < j => sigmap[f[i]] <= sigmap[f[j]]}

\* handleSignalFile for each signal of the sequence in turn
RECURSIVE applyInOrder(_, _)
applyInOrder(s, kinds) ==
  IF kinds = <<>> THEN s ELSE applyInOrder(signalStep(s, Head(kinds)), Tail(kinds))

C9_Original ==
  /\ reconcileRuns <= 1
  /\ reconcileRuns = 1 <=> pc \in {"publish", "ready"}
  /\ published # <<>> => reconcileRuns = 1

C10_Step(sid) ==
  LET s == sessions[sid]
      n == sessions'[sid]
  IN  /\ (lastOp'.op \in {"applySignal", "loadSignal"} /\ s.phase = "none")
           => n.phase = "none"
      /\ (s.phase = "none" /\ n.phase = "live") =>
           /\ lastOp'.op = "applyEvent" /\ lastOp'.sessionId = sid
           /\ n.turnState = NextTurnState("waiting_for_input", lastOp'.arg)
           /\ loadedKinds(signals[sid]) = {"working"} => n.status = "working"
      /\ (lastOp'.op = "reconcile" /\ s.phase = "live"
             /\ loadedKinds(signals[sid]) = {"working"})
           => n.status = "working"

RECURSIVE recordsAbout(_, _)
recordsAbout(events, sid) ==
  IF events = <<>> THEN <<>>
  ELSE (IF Head(events).sessionId = sid THEN <<Head(events)>> ELSE <<>>)
       \o recordsAbout(Tail(events), sid)

\* what a step changed of what consumers see of sid: the session appeared, or
\* its status, hasPendingToolUse or lastActivityAt differ (cwd and sessionId
\* are fixed at creation)
ProjectionChanged(sid) ==
  \/ sessions[sid].phase = "none" /\ sessions'[sid].phase = "live"
  \/ /\ sessions[sid].phase = "live" /\ sessions'[sid].phase = "live"
     /\ projection(sessions[sid]) # projection(sessions'[sid])

\* C11: a step of applyEvent, applySignal or reconcile emits exactly one change
\* record for a session whose visible projection it changed, and none for a
\* session whose projection it left as it was.
C11_Original ==
  [][\A sid \in Sessions :
       lastOp'.op \in {"applyEvent", "applySignal", "reconcile"} =>
         Len(recordsAbout(emitted', sid)) = (IF ProjectionChanged(sid) THEN 1 ELSE 0)]_vars

\* C12: remove(sessionId) emits one deleted record, and from then on no step
\* changes the state of that session, creates it again or emits a record for it.
C12_RemovedStaysRemoved ==
  [][\A sid \in Sessions :
       /\ (lastOp'.op = "remove" /\ lastOp'.sessionId = sid) =>
            /\ sessions'[sid].phase = "deleted"
            /\ emitted' = <<[type |-> "deleted", sessionId |-> sid]>>
       /\ sessions[sid].phase = "deleted" =>
            /\ sessions'[sid] = sessions[sid]
            /\ recordsAbout(emitted', sid) = <<>>]_vars

\* a transcript event arrives for a session that was created and then removed
C12_Witness ==
  \E sid \in Sessions :
    /\ sessions[sid].phase = "deleted"
    /\ lastOp.op = "applyEvent" /\ lastOp.sessionId = sid
    /\ emitted = <<>>
    /\ budget = MaxInputs - 3

\* C13: right after an ended signal is applied to a session, ended is the only
\* flag the session carries: working, permission and stop are cleared, the
\* status is idle and no tool use is pending.
C13_EndedClearsOthers ==
  [][\A sid \in Sessions :
       (/\ lastOp'.op = "applySignal" /\ lastOp'.sessionId = sid /\ lastOp'.arg = "ended"
        /\ sessions'[sid].phase = "live") =>
          /\ "ended" \in sessions'[sid].activeSignals
          /\ sessions'[sid].activeSignals \cap {"working", "permission", "stop"} = {}
          /\ sessions'[sid].status = "idle"
          /\ ~sessions'[sid].visiblePending]_vars

\* scenario C: the ended signal arrives for a session with a permission signal
C13_Witness ==
  \E sid \in Sessions :
    /\ Live(sid)
    /\ lastOp.op = "applySignal" /\ lastOp.sessionId = sid /\ lastOp.arg = "ended"
    /\ signals[sid]["permission"] # NoSignal
    /\ sessions[sid].activeSignals = {"ended"}
    /\ sessions[sid].status = "idle"

\* C14: a session is shown idle only while an ended signal is active for it.
C14_IdleOnlyWhenEnded ==
  \A sid \in Sessions :
    (sessions[sid].phase # "none" /\ sessions[sid].status = "idle")
      => "ended" \in sessions[sid].activeSignals

\* an ended session stays idle when a further transcript event reaches it
C14_Witness ==
  \E sid \in Sessions :
    /\ Live(sid)
    /\ sessions[sid].status = "idle"
    /\ "ended" \in sessions[sid].activeSignals
    /\ lastOp.op = "applyEvent" /\ lastOp.sessionId = sid

\* C15 as stated: the hasPendingToolUse a session shows is true exactly when
\* turnState is waiting_for_approval or a permission signal is the override.
C15_Original ==
  \A sid \in Sessions :
    Live(sid) =>
      (sessions[sid].visiblePending <=>
         \/ sessions[sid].turnState = "waiting_for_approval"
         \/ /\ "permission" \in sessions[sid].activeSignals
            /\ "ended" \notin sessions[sid].activeSignals)

\* C15: the machine's hasPendingToolUse is true exactly in waiting_for_approval;
\* the hasPendingToolUse a session shows is true exactly when no ended signal
\* is active and either a permission signal is active, or no stop or working
\* signal is active and turnState is waiting_for_approval.
C15_PendingToolUse ==
  \A sid \in Sessions :
    Live(sid) =>
      LET s == sessions[sid]
      IN  /\ s.hasPendingToolUse <=> s.turnState = "waiting_for_approval"
          /\ s.visiblePending <=>
               /\ "ended" \notin s.activeSignals
               /\ \/ "permission" \in s.activeSignals
                  \/ /\ s.activeSignals \cap {"stop", "working"} = {}
                     /\ s.turnState = "waiting_for_approval"

\* a stop signal on a session in waiting_for_approval: no pending tool use shown
C15_Witness ==
  \E sid \in Sessions :
    /\ Live(sid)
    /\ sessions[sid].turnState = "waiting_for_approval"
    /\ sessions[sid].hasPendingToolUse
    /\ sessions[sid].activeSignals = {"stop"}
    /\ ~sessions[sid].visiblePending

\* the edges of the transition diagram: <<from, event, to>>
TransitionEdges ==
  { <<"waiting_for_input", "USER_PROMPT", "working">>,
    <<"working", "ASSISTANT_TOOL_USE", "waiting_for_approval">>,
    <<"working", "TURN_END", "waiting_for_input">>,
    <<"working", "STALE_TIMEOUT", "waiting_for_input">>,
    <<"waiting_for_approval", "TOOL_RESULT", "working">>,
    <<"waiting_for_approval", "STALE_TIMEOUT", "waiting_for_input">> }

\* C16: a step that changes a session's turnState is a transcript event or a
\* stale timeout for that session, and <<old state, event, new state>> is an
\* edge of the transition table; signals and reconcile never change turnState.
C16_Step(sid) ==
  LET s == sessions[sid]
      n == sessions'[sid]
  IN  /\ n.turnState # s.turnState =>
           \/ /\ lastOp'.op = "applyEvent" /\ lastOp'.sessionId = sid
              /\ <<s.turnState, lastOp'.arg, n.turnState>> \in TransitionEdges
           \/ /\ lastOp'.op = "checkStale" /\ sid \in lastOp'.sent
              /\ <<s.turnState, "STALE_TIMEOUT", n.turnState>> \in TransitionEdges
      /\ lastOp'.op \in {"applySignal", "loadSignal", "reconcile"} =>
           /\ n.turnState = s.turnState
           /\ n.hasPendingToolUse = s.hasPendingToolUse

C16_OnlyTableEdges == [][\A sid \in Sessions : C16_Step(sid)]_vars

\* a stop signal reaches a session whose machine is in waiting_for_approval
C16_Witness ==
  \E sid \in Sessions :
    /\ Live(sid)
    /\ lastOp.op = "applySignal" /\ lastOp.sessionId = sid /\ lastOp.arg = "stop"
    /\ sessions[sid].turnState = "waiting_for_approval"
    /\ sessions[sid].status = "waiting"

\* C17: a transcript event for an existing session whose (state, event) pair
\* is no row of the table leaves turnState, hasPendingToolUse and
\* lastActivityAt as they were and emits no change record.
C17_Step(sid) ==
  LET s == sessions[sid]
      n == sessions'[sid]
  IN  (/\ lastOp'.op = "applyEvent" /\ lastOp'.sessionId = sid
       /\ s.phase = "live"
       /\ \A to \in TurnStates : <<s.turnState, lastOp'.arg, to>> \notin TransitionEdges
       /\ ~(s.turnState = "working" /\ lastOp'.arg = "ASSISTANT_STREAMING")) =>
        /\ n.phase = "live"
        /\ n.turnState = s.turnState
        /\ n.hasPendingToolUse = s.hasPendingToolUse
        /\ n.visiblePending = s.visiblePending
        /\ n.lastActivityAt = s.lastActivityAt
        /\ emitted' = <<>>

C17_UnhandledEventIgnored == [][\A sid \in Sessions : C17_Step(sid)]_vars

\* TURN_END reaches a session in waiting_for_approval, later than its last activity
C17_Witness ==
  \E sid \in Sessions :
    /\ Live(sid)
    /\ lastOp.op = "applyEvent" /\ lastOp.sessionId = sid /\ lastOp.arg = "TURN_END"
    /\ sessions[sid].turnState = "waiting_for_approval"
    /\ sessions[sid].lastActivityAt < now
    /\ emitted = <<>>

\* C18: in every state of the machine, sending an event a second time right
\* after the first leaves turnState and hasPendingToolUse as the first left them.
C18_SameEventTwice ==
  \A sid \in Sessions : \A ev \in StatusEvents :
    sessions[sid].phase # "none" =>
      LET once == machineSend(sessions[sid], ev, now)
          twice == machineSend(once, ev, now)
      IN  /\ twice.turnState = once.turnState
          /\ twice.hasPendingToolUse = once.hasPendingToolUse

\* the second of two USER_PROMPT records in a row: the session stays working
C18_Witness ==
  \E sid \in Sessions :
    /\ Live(sid) /\ NoSignals(sid)
    /\ lastOp.op = "applyEvent" /\ lastOp.sessionId = sid /\ lastOp.arg = "USER_PROMPT"
    /\ sessions[sid].turnState = "working"
    /\ emitted = <<>>
    /\ budget = MaxInputs - 2

\* C19: a session has at most one signal of a kind, a flag of the session has
\* its entry in the signal maps, and the entry of a kind carries the time of
\* the signal of that kind that was applied last.
C19_Step(sid) ==
  /\ \A k \in SignalKinds :
       /\ (lastOp'.op = "applySignal" /\ lastOp'.sessionId = sid /\ lastOp'.arg = k)
            => signals'[sid][k] = now'
       /\ signals'[sid][k] # signals[sid][k] =>
            /\ lastOp'.op \in {"applySignal", "loadSignal"}
            /\ lastOp'.sessionId = sid /\ lastOp'.arg = k
  /\ sessions'[sid].activeSignals \subseteq loadedKinds(signals'[sid])

C19_LatestSignalKept == [][\A sid \in Sessions : C19_Step(sid)]_vars

\* a second stop signal, later than the first, on a session that already had one
C19_Witness ==
  \E sid \in Sessions :
    /\ Live(sid)
    /\ lastOp.op = "applySignal" /\ lastOp.sessionId = sid /\ lastOp.arg = "stop"
    /\ sessions[sid].turnState = "working"
    /\ sessions[sid].activeSignals = {"stop"}
    /\ emitted = <<>>
    /\ signals[sid]["stop"] = now /\ now > 0

C22_OtherSessionsUntouched ==
  [][\A sid \in Sessions :
       (lastOp'.op \in {"applyEvent", "applySignal", "remove"} /\ lastOp'.sessionId = sid) =>
         \A other \in Sessions \ {sid} :
           /\ sessions'[other] = sessions[other]
           /\ signals'[other] = signals[other]
           /\ recordsAbout(emitted', other) = <<>>]_vars

\* an ended signal for one of two sessions: the other is still shown working
C22_Witness ==
  \E sid \in Sessions : \E other \in Sessions \ {sid} :
    /\ lastOp.op = "applySignal" /\ lastOp.sessionId = sid /\ lastOp.arg = "ended"
    /\ Live(sid) /\ sessions[sid].status = "idle"
    /\ Live(other) /\ sessions[other].status = "working"
    /\ sessions[other].activeSignals = {}

C27_StaleApprovalCleared ==
  [][\A sid \in Sessions :
       (/\ lastOp'.op = "checkStale" /\ sid \in lastOp'.sent
        /\ sessions[sid].turnState = "waiting_for_approval") =>
          /\ sessions'[sid].turnState = "waiting_for_input"
          /\ ~sessions'[sid].hasPendingToolUse
          /\ sessions'[sid].activeSignals = {} =>
               (sessions'[sid].status = "waiting" /\ ~sessions'[sid].visiblePending)]_vars

\* USER_PROMPT and ASSISTANT_TOOL_USE, no TOOL_RESULT, then the stale check
C27_Witness ==
  \E sid \in Sessions :
    /\ lastOp.op = "checkStale" /\ sid \in lastOp.sent
    /\ NoSignals(sid)
    /\ sessions[sid].turnState = "waiting_for_input"
    /\ sessions[sid].status = "waiting" /\ ~sessions[sid].visiblePending
    /\ budget = MaxInputs - 2
    /\ sessions[sid].lastActivityAt = now

\* C28: after a transcript event that is a row of the table, the self-loop on
\* ASSISTANT_STREAMING included, lastActivityAt is the time of the event;
\* after a STALE_TIMEOUT it is the time of the check.
C28_Step(sid) ==
  LET s == sessions[sid]
      n == sessions'[sid]
      from == IF s.phase = "none" THEN "waiting_for_input" ELSE s.turnState
  IN  /\ (/\ lastOp'.op = "applyEvent" /\ lastOp'.sessionId = sid
          /\ s.phase # "deleted"
          /\ \/ \E to \in TurnStates : <<from, lastOp'.arg, to>> \in TransitionEdges
             \/ from = "working" /\ lastOp'.arg = "ASSISTANT_STREAMING")
           => n.lastActivityAt = now'
      /\ (lastOp'.op = "checkStale" /\ sid \in lastOp'.sent) => n.lastActivityAt = now'

C28_HandledRefreshes == [][\A sid \in Sessions : C28_Step(sid)]_vars

\* ASSISTANT_STREAMING on a working session, later than its last activity
C28_Witness ==
  \E sid \in Sessions :
    /\ Live(sid) /\ NoSignals(sid)
    /\ lastOp.op = "applyEvent" /\ lastOp.sessionId = sid
    /\ lastOp.arg = "ASSISTANT_STREAMING"
    /\ sessions[sid].turnState = "working"
    /\ sessions[sid].lastActivityAt = now /\ now > 0
    /\ emitted = <<[type |-> "updated", sessionId |-> sid]>>

\* C29: the records of a session start with one created record, go on with
\* updated records and end with at most one deleted record: a session that has
\* no record yet gets created, one that has been created gets updated or
\* deleted, one that has been deleted gets nothing.
C29_Step(sid) ==
  LET s == sessions[sid]
      n == sessions'[sid]
      recs == recordsAbout(emitted', sid)
      only(type) == recs = <<[type |-> type, sessionId |-> sid]>>
  IN  /\ s.phase = "none" =>
           \/ recs = <<>> /\ n.phase = "none"
           \/ only("created") /\ n.phase = "live"
      /\ s.phase = "live" =>
           \/ recs = <<>> /\ n.phase = "live"
           \/ only("updated") /\ n.phase = "live"
           \/ only("deleted") /\ n.phase = "deleted"
      /\ s.phase = "deleted" => (recs = <<>> /\ n.phase = "deleted")

C29_RecordLifecycle == [][\A sid \in Sessions : C29_Step(sid)]_vars

\* a session that was created, ended and then removed
C29_Witness ==
  \E sid \in Sessions :
    /\ sessions[sid].phase = "deleted"
    /\ sessions[sid].status = "idle"
    /\ lastOp.op = "remove" /\ lastOp.sessionId = sid
    /\ emitted = <<[type |-> "deleted", sessionId |-> sid]>>

(* ------------- one session's inputs in two different orders ------------- *)
\* The transcript watcher and the signal watcher each deliver their inputs in
\* order, but the two interleave freely. s1 and s2 stand for one session fed
\* the same transcript events and the same signals: a step gives both the same
\* input, or gives both one event and one signal, s1 the event first and s2
\* the signal first. Two interleavings of the same two sequences are linked by
\* a chain of such exchanges of neighbours.
OrderInputs == MaxInputs + 2

\* the daemon after a startup that found nothing on disk
OrderInit ==
  /\ pc = "ready"
  /\ running = TRUE
  /\ now = 0
  /\ budget = OrderInputs
  /\ sessions = [sid \in Sessions |-> NoSession]
  /\ signals = [sid \in Sessions |-> [k \in SignalKinds |-> NoSignal]]
  /\ reconcileRuns = 1
  /\ lastOp = [op |-> "publishInitial", sessionId |-> "", arg |-> "", sent |-> {}]
  /\ emitted = <<>>
  /\ published = <<>>
  /\ inflight = <<>>
  /\ inserted = {}
  /\ dismissed = {}
  /\ UiInit

\* handleFile, the same record in both
SameEvent(ev) ==
  /\ CanInput
  /\ LET after == [sid \in Sessions |-> eventStep(sessions[sid], signals[sid], ev, now)]
         recs == recordsOf(SessionOrder, sessions, after)
     IN  /\ sessions' = after
         /\ emitted' = recs
         /\ published' = onSession(recs)
  /\ budget' = budget - 1
  /\ lastOp' = [op |-> "applyEvent", sessionId |-> "", arg |-> ev, sent |-> {}]
  /\ UNCHANGED <<pc, running, now, signals, reconcileRuns, inflight, dismissed, uiVars>>
  /\ inserted' = inserted \cup insertedBy(published')

\* handleSignalFile, the same signal in both
SameSignal(kind) ==
  /\ CanInput
  /\ LET after == [sid \in Sessions |-> signalStep(sessions[sid], kind)]
         recs == signalRecord("s1", sessions["s1"], after["s1"], kind)
                 \o signalRecord("s2", sessions["s2"], after["s2"], kind)
     IN  /\ sessions' = after
         /\ emitted' = recs
         /\ published' = onSession(recs)
  /\ signals' = [sid \in Sessions |-> setSignal(signals[sid], kind, now)]
  /\ budget' = budget - 1
  /\ lastOp' = [op |-> "applySignal", sessionId |-> "", arg |-> kind, sent |-> {}]
  /\ UNCHANGED <<pc, running, now, reconcileRuns, inflight, dismissed, uiVars>>
  /\ inserted' = inserted \cup insertedBy(published')

\* one record and one signal: handleFile then handleSignalFile in s1,
\* handleSignalFile then handleFile in s2
SwappedPair(ev, kind) ==
  /\ running
  /\ budget >= 2
  /\ LET maps == [sid \in Sessions |-> setSignal(signals[sid], kind, now)]
         e1 == eventStep(sessions["s1"], signals["s1"], ev, now)
         k1 == signalStep(e1, kind)
         k2 == signalStep(sessions["s2"], kind)
         e2 == eventStep(k2, maps["s2"], ev, now)
         recs == changeRecord("s1", sessions["s1"], e1) \o signalRecord("s1", e1, k1, kind)
                 \o signalRecord("s2", sessions["s2"], k2, kind) \o changeRecord("s2", k2, e2)
     IN  /\ sessions' = [sessions EXCEPT !["s1"] = k1, !["s2"] = e2]
         /\ signals' = maps
         /\ emitted' = recs
         /\ published' = onSession(recs)
  /\ budget' = budget - 2
  /\ lastOp' = [op |-> "swapped", sessionId |-> "", arg |-> kind, sent |-> {}]
  /\ UNCHANGED <<pc, running, now, reconcileRuns, inflight, dismissed, uiVars>>
  /\ inserted' = inserted \cup insertedBy(published')

OrderNext ==
  \/ \E ev \in TranscriptEvents : SameEvent(ev)
  \/ \E kind \in SignalKinds : SameSignal(kind)
  \/ \E ev \in TranscriptEvents, kind \in SignalKinds : SwappedPair(ev, kind)
  \/ AdvanceClock

OrderSpec == OrderInit /\ [][OrderNext]_vars

\* C20: for one session, a fixed sequence of transcript events and a fixed
\* sequence of signals end in the same effectiveStatus and the same visible
\* hasPendingToolUse however the two sequences are interleaved.
C20_InterleavingIndependent ==
  /\ sessions["s1"].phase = sessions["s2"].phase
  /\ sessions["s1"].status = sessions["s2"].status
  /\ sessions["s1"].visiblePending = sessions["s2"].visiblePending

\* a record and an ended signal in both orders, after a working signal: the
\* flags differ, the status does not
C20_Witness ==
  /\ lastOp.op = "swapped" /\ lastOp.arg = "ended"
  /\ Live("s1") /\ Live("s2")
  /\ sessions["s1"].activeSignals # sessions["s2"].activeSignals
  /\ sessions["s1"].status = "idle"

(* ------------------- transcript records and batches -------------------- *)
\* A transcript notification carries the records appended since the last one;
\* handleFile maps each record to a StatusEvent and sends the events to the
\* machine in order.
MaxBatch == 2
MaxTools == 2

\* tools that run without the user's approval
AutoApprovedTools == {"Task", "Read", "Glob", "Grep", "TodoWrite", "TaskOutput"}

\* tool_use blocks an assistant message can carry
ToolBlocks ==
  { [id |-> "t1", name |-> "Bash"], [id |-> "t2", name |-> "Read"],
    [id |-> "t3", name |-> "Glob"], [id |-> "t4", name |-> "Grep"],
    [id |-> "t5", name |-> "TodoWrite"], [id |-> "t6", name |-> "Task"],
    [id |-> "t7", name |-> "TaskOutput"] }

UserText == [type |-> "user", content |-> "text", tools |-> {}]
UserToolResult == [type |-> "user", content |-> "tool_result", tools |-> {}]
AssistantMessage(tools) == [type |-> "assistant", content |-> "message", tools |-> tools]
SystemTurnDuration == [type |-> "system", content |-> "turn_duration", tools |-> {}]
SystemOther == [type |-> "system", content |-> "compact_boundary", tools |-> {}]
\* a line of the transcript that does not parse
Malformed == [type |-> "malformed", content |-> "", tools |-> {}]

Records ==
  {UserText, UserToolResult, SystemTurnDuration, SystemOther, Malformed}
    \cup {AssistantMessage(tools) : tools \in {x \in SUBSET ToolBlocks : Cardinality(x) <= MaxTools}}

Batches == UNION {[1..n -> Records] : n \in 1..MaxBatch}

NoEvent == [type |-> "none", toolUseIds |-> {}]

\* variant: every tool_use block makes the message an ASSISTANT_TOOL_USE
mapRecord_anyToolUse(r) ==
  IF r.type = "user"
  THEN [type |-> IF r.content = "tool_result" THEN "TOOL_RESULT" ELSE "USER_PROMPT",
        toolUseIds |-> {}]
  ELSE IF r.type = "assistant"
  THEN IF r.tools = {} THEN [type |-> "ASSISTANT_STREAMING", toolUseIds |-> {}]
       ELSE [type |-> "ASSISTANT_TOOL_USE", toolUseIds |-> {b.id : b \in r.tools}]
  ELSE IF r.type = "system" /\ r.content \in {"turn_duration", "stop_hook_summary"}
  THEN [type |-> "TURN_END", toolUseIds |-> {}]
  ELSE NoEvent

\* Event Mapping from Log Entries
mapRecord(r) ==
  IF r.type = "user"
  THEN [type |-> IF r.content = "tool_result" THEN "TOOL_RESULT" ELSE "USER_PROMPT",
        toolUseIds |-> {}]
  ELSE IF r.type = "assistant"
  THEN LET needApproval == {b \in r.tools : b.name \notin AutoApprovedTools}
       IN  IF needApproval = {} THEN [type |-> "ASSISTANT_STREAMING", toolUseIds |-> {}]
           ELSE [type |-> "ASSISTANT_TOOL_USE", toolUseIds |-> {b.id : b \in needApproval}]
  ELSE IF r.type = "system" /\ r.content \in {"turn_duration", "stop_hook_summary"}
  THEN [type |-> "TURN_END", toolUseIds |-> {}]
  ELSE NoEvent

\* variant: a record that does not parse is taken for the end of the turn
recordStep_malformedEndsTurn(s, sigmap, r, t) ==
  LET ev == mapRecord(r)
  IN  IF r.type = "malformed" THEN eventStep(s, sigmap, "TURN_END", t)
      ELSE IF ev.type = "none" THEN s
      ELSE eventStep(s, sigmap, ev.type, t)

\* one record of a notification: a record that maps to no event, a malformed
\* one included, is skipped
recordStep(s, sigmap, r, t) ==
  LET ev == mapRecord(r)
  IN  IF ev.type = "none" THEN s ELSE eventStep(s, sigmap, ev.type, t)

\* handleFile over the new records of one notification, in order
RECURSIVE handleBatch(_, _, _, _)
handleBatch(s, sigmap, batch, t) ==
  IF batch = <<>> THEN s
  ELSE handleBatch(recordStep(s, sigmap, Head(batch), t), sigmap, Tail(batch), t)

\* the daemon after a startup that found nothing on disk
BatchInit ==
  /\ pc = "ready"
  /\ running = TRUE
  /\ now = 0
  /\ budget = MaxInputs
  /\ sessions = [sid \in Sessions |-> NoSession]
  /\ signals = [sid \in Sessions |-> [k \in SignalKinds |-> NoSignal]]
  /\ reconcileRuns = 1
  /\ lastOp = [op |-> "publishInitial", sessionId |-> "", arg |-> "", sent |-> {}]
  /\ emitted = <<>>
  /\ published = <<>>
  /\ inflight = <<>>
  /\ inserted = {}
  /\ dismissed = {}
  /\ UiInit

\* watcher "change" of a transcript with several new records; each record
\* counts as one input
ApplyBatch(sid, batch) ==
  /\ running
  /\ Len(batch) <= budget
  /\ LET after == handleBatch(sessions[sid], signals[sid], batch, now)
         recs == changeRecord(sid, sessions[sid], after)
     IN  /\ sessions' = [sessions EXCEPT ![sid] = after]
         /\ emitted' = recs
         /\ published' = onSession(recs)
  /\ budget' = budget - Len(batch)
  /\ lastOp' = [op |-> "applyBatch", sessionId |-> sid, arg |-> batch, sent |-> {}]
  /\ UNCHANGED <<pc, running, now, signals, reconcileRuns, inflight, dismissed, uiVars>>
  /\ inserted' = inserted \cup insertedBy(published')

BatchNext ==
  \/ \E sid \in LiveSessions, batch \in Batches : ApplyBatch(sid, batch)
  \/ \E sid \in LiveSessions, kind \in SignalKinds : ApplySignal(sid, kind)

BatchSpec == BatchInit /\ [][BatchNext]_vars

\* the records of a batch that parse
wellFormed(batch) == SelectSeq(batch, LAMBDA r : r.type # "malformed")

\* C23: a notification whose batch contains malformed records leaves the
\* session as applying, in order, only the well-formed records of the batch
\* leaves it: a malformed record neither ends nor alters the processing of
\* the records after it.
C23_MalformedSkipped ==
  [][\A sid \in Sessions :
       (lastOp'.op = "applyBatch" /\ lastOp'.sessionId = sid) =>
         sessions'[sid] = handleBatch(sessions[sid], signals[sid], wellFormed(lastOp'.arg), now)]_vars

\* a batch of a malformed record followed by a user prompt: the session works
C23_Witness ==
  /\ lastOp.op = "applyBatch"
  /\ lastOp.arg = <<Malformed, UserText>>
  /\ Live(lastOp.sessionId)
  /\ sessions[lastOp.sessionId].turnState = "working"
  /\ emitted = <<[type |-> "created", sessionId |-> lastOp.sessionId]>>

\* C24: an assistant record maps to ASSISTANT_STREAMING exactly when it has no
\* tool_use block or only blocks of auto-approved tools (Read, Glob, Grep,
\* TodoWrite, Task, TaskOutput); otherwise it maps to ASSISTANT_TOOL_USE with
\* the ids of the blocks that are not auto-approved. The records before it in
\* the batch make no difference.
C24_Step ==
  lastOp'.op = "applyBatch" =>
    \A i \in 1..Len(lastOp'.arg) :
      LET r == lastOp'.arg[i]
          ev == mapRecord(r)
          others == {b \in r.tools :
                       b.name \notin {"Read", "Glob", "Grep", "TodoWrite", "Task", "TaskOutput"}}
      IN  r.type = "assistant" =>
            /\ ev.type = "ASSISTANT_STREAMING" <=> others = {}
            /\ others # {} =>
                 (ev.type = "ASSISTANT_TOOL_USE" /\ ev.toolUseIds = {b.id : b \in others})
            /\ ev.type \in {"ASSISTANT_STREAMING", "ASSISTANT_TOOL_USE"}

C24_AssistantMapping == [][C24_Step]_vars

\* a prompt, then an assistant message with a Read and a Bash block: the
\* session waits for approval
C24_Witness ==
  /\ lastOp.op = "applyBatch"
  /\ lastOp.arg = <<UserText, AssistantMessage({[id |-> "t1", name |-> "Bash"],
                                               [id |-> "t2", name |-> "Read"]})>>
  /\ Live(lastOp.sessionId)
  /\ sessions[lastOp.sessionId].turnState = "waiting_for_approval"

(* --------------------- publishing and shutdown ------------------------- *)
\* The "session" listener awaits streamServer.publishSession. In the actions
\* above the promise resolves within the step; in the two below it is still
\* pending when the handler returns, and resolves in a later step.

\* handleSignalFile, the listener's publish still pending
ApplySignalPending(sid, kind) ==
  /\ CanInput
  /\ Steady
  /\ LET after == signalStep(sessions[sid], kind)
         recs == signalRecord(sid, sessions[sid], after, kind)
     IN  /\ sessions' = [sessions EXCEPT ![sid] = after]
         /\ emitted' = recs
         /\ published' = onSession(recs)
         /\ inflight' = inflight \o onSession(recs)
  /\ signals' = [signals EXCEPT ![sid] = setSignal(signals[sid], kind, now)]
  /\ budget' = budget - 1
  /\ lastOp' = [op |-> "applySignal", sessionId |-> sid, arg |-> kind, sent |-> {}]
  /\ UNCHANGED <<pc, running, now, reconcileRuns, dismissed, uiVars>>
  /\ inserted' = inserted \cup insertedBy(published')

\* handleFile, the listener's publish still pending
ApplyEventPending(sid, ev) ==
  /\ CanInput
  /\ pc \in {"scan", "publish", "ready"}
  /\ LET after == eventStep(sessions[sid], signals[sid], ev, now)
         recs == changeRecord(sid, sessions[sid], after)
     IN  /\ sessions' = [sessions EXCEPT ![sid] = after]
         /\ emitted' = recs
         /\ published' = onSession(recs)
         /\ inflight' = inflight \o onSession(recs)
  /\ budget' = budget - 1
  /\ lastOp' = [op |-> "applyEvent", sessionId |-> sid, arg |-> ev, sent |-> {}]
  /\ UNCHANGED <<pc, running, now, signals, reconcileRuns, dismissed, uiVars>>
  /\ inserted' = inserted \cup insertedBy(published')

\* the oldest pending publishSession resolves
PublishResolved ==
  /\ pc # "exited"
  /\ inflight # <<>>
  /\ inflight' = Tail(inflight)
  /\ lastOp' = [op |-> "publishResolved", sessionId |-> Head(inflight).sessionId,
                arg |-> "", sent |-> {}]
  /\ emitted' = <<>>
  /\ published' = <<>>
  /\ UNCHANGED <<pc, running, now, budget, sessions, signals, reconcileRuns, dismissed, uiVars>>
  /\ inserted' = inserted \cup insertedBy(published')

\* SIGINT handler after watcher.stop(): streamServer.stop() has resolved and
\* process.exit(0) ends the process, whatever is still pending
Exit ==
  /\ ~running
  /\ pc # "exited"
  /\ pc' = "exited"
  /\ lastOp' = [op |-> "exit", sessionId |-> "", arg |-> "", sent |-> {}]
  /\ emitted' = <<>>
  /\ published' = <<>>
  /\ UNCHANGED <<running, now, budget, sessions, signals, reconcileRuns, inflight, dismissed, uiVars>>
  /\ inserted' = inserted \cup insertedBy(published')

ShutdownNext ==
  \/ NextFor(LiveSessions)
  \/ \E sid \in LiveSessions, kind \in SignalKinds : ApplySignalPending(sid, kind)
  \/ \E sid \in LiveSessions, ev \in TranscriptEvents : ApplyEventPending(sid, ev)
  \/ PublishResolved
  \/ Stop
  \/ Exit

ShutdownSpec == Init /\ [][ShutdownNext]_vars

\* C25: once the watcher is stopped no stale check sends STALE_TIMEOUT and
\* reconcile is not started, and when the process ends no publish that was
\* pending at the stop is left undelivered.
C25_Original ==
  [][/\ ~running => lastOp'.op \notin {"checkStale", "reconcile"}
     /\ pc' = "exited" => inflight' = <<>>]_vars

(* ----------------------- removed signal files --------------------------- *)
\* The hooks also remove signal files: UserPromptSubmit removes the stop
\* file, Stop removes the working and permission files. A file's presence
\* counts until it is removed.
unsetSignal(sigmap, kind) == [sigmap EXCEPT ![kind] = NoSignal]

\* variant: the removal of the file leaves the flag of the session set
unsignalStep_keepsFlag(s, kind) == s

\* variant: the flag is cleared but the status is not resolved again
unsignalStep_flagOnly(s, kind) ==
  IF s.phase # "live" THEN s
  ELSE [s EXCEPT !.activeSignals = @ \ {kind}]

\* the session part of a removed signal file
unsignalStep(s, kind) ==
  IF s.phase # "live" THEN s
  ELSE withStatus([s EXCEPT !.activeSignals = @ \ {kind}])

\* signal watcher "unlink" of a file the watcher has seen
SignalRemoved(sid, kind) ==
  /\ running
  /\ Steady
  /\ signals[sid][kind] # NoSignal
  /\ LET after == unsignalStep(sessions[sid], kind)
         recs == changeRecord(sid, sessions[sid], after)
     IN  /\ sessions' = [sessions EXCEPT ![sid] = after]
         /\ emitted' = recs
         /\ published' = onSession(recs)
  /\ signals' = [signals EXCEPT ![sid] = unsetSignal(signals[sid], kind)]
  /\ lastOp' = [op |-> "signalRemoved", sessionId |-> sid, arg |-> kind, sent |-> {}]
  /\ UNCHANGED <<pc, running, now, budget, reconcileRuns, inflight, dismissed, uiVars>>
  /\ inserted' = inserted \cup insertedBy(published')

HookNext ==
  \/ NextFor(LiveSessions)
  \/ \E sid \in LiveSessions, kind \in SignalKinds : SignalRemoved(sid, kind)

HookSpec == Init /\ [][HookNext]_vars

\* the step that ends the daemon's processing of a UserPromptSubmit hook for
\* sid: the working file was written and there was no stop file to remove, or
\* the write and the removal were processed one after the other, in either order
UserPromptSubmitDone(sid) ==
  LET wrote(op) == op.op = "applySignal" /\ op.sessionId = sid /\ op.arg = "working"
      removed(op) == op.op = "signalRemoved" /\ op.sessionId = sid /\ op.arg = "stop"
  IN  \/ wrote(lastOp') /\ signals[sid]["stop"] = NoSignal
      \/ wrote(lastOp) /\ removed(lastOp')
      \/ removed(lastOp) /\ wrote(lastOp')

\* C30: once the daemon has processed what the UserPromptSubmit hook did to
\* the signal directory (working file written, stop file removed), a session
\* without an ended and without a permission signal is shown working, also
\* when a stop signal was active before the hook ran.
C30_PromptHookShowsWorking ==
  [][\A sid \in Sessions :
       (/\ UserPromptSubmitDone(sid)
        /\ sessions'[sid].phase = "live"
        /\ sessions'[sid].activeSignals \cap {"ended", "permission"} = {}) =>
          /\ sessions'[sid].status = "working"
          /\ ~sessions'[sid].visiblePending]_vars

\* the stop file of a session at rest is removed after its working file was written
C30_Witness ==
  \E sid \in Sessions :
    /\ Live(sid)
    /\ lastOp.op = "signalRemoved" /\ lastOp.sessionId = sid /\ lastOp.arg = "stop"
    /\ sessions[sid].turnState = "waiting_for_input"
    /\ sessions[sid].activeSignals = {"working"}
    /\ sessions[sid].status = "working"
    /\ emitted = <<[type |-> "updated", sessionId |-> sid]>>

(* --------------------------- the Stop hook ------------------------------ *)
\* the step that ends the daemon's processing of a Stop hook for sid: the
\* hook writes the stop file and removes the working and the permission
\* file; the daemon sees the three notifications in any order. Either the
\* stop file is processed last, or a removal is processed while the stop
\* signal is already active; after the step neither removed file is left.
StopHookDone(sid) ==
  LET wrote == lastOp'.op = "applySignal" /\ lastOp'.sessionId = sid /\ lastOp'.arg = "stop"
      removed ==
        /\ lastOp'.op = "signalRemoved" /\ lastOp'.sessionId = sid
        /\ lastOp'.arg \in {"working", "permission"}
        /\ "stop" \in sessions[sid].activeSignals
  IN  /\ wrote \/ removed
      /\ signals'[sid]["stop"] # NoSignal
      /\ signals'[sid]["working"] = NoSignal
      /\ signals'[sid]["permission"] = NoSignal

\* C31: once the daemon has processed what the Stop hook did to the signal
\* directory (stop file written, working and permission files removed), a
\* session without an ended signal is shown waiting with no pending tool
\* use, also when a permission signal was active before the hook ran.
C31_StopHookShowsWaiting ==
  [][\A sid \in Sessions :
       (/\ StopHookDone(sid)
        /\ sessions'[sid].phase = "live"
        /\ "ended" \notin sessions'[sid].activeSignals) =>
          /\ sessions'[sid].status = "waiting"
          /\ ~sessions'[sid].visiblePending]_vars

\* the permission file of a session is removed after its stop file was
\* written: the session goes from approval to plain waiting
C31_Witness ==
  \E sid \in Sessions :
    /\ Live(sid)
    /\ lastOp.op = "signalRemoved" /\ lastOp.sessionId = sid /\ lastOp.arg = "permission"
    /\ sessions[sid].activeSignals = {"stop"}
    /\ signals[sid]["stop"] # NoSignal
    /\ signals[sid]["working"] = NoSignal
    /\ sessions[sid].status = "waiting"
    /\ ~sessions[sid].visiblePending
    /\ emitted = <<[type |-> "updated", sessionId |-> sid]>>

(* ------------------------- the dismiss endpoint ------------------------- *)
\* POST /api/sessions/:sessionId/end answered with success: the endpoint has
\* written <sessionId>.ended.json and has touched no other signal file
Dismiss(sid) ==
  /\ CanInput
  /\ Steady
  /\ sessions[sid].phase = "live"
  /\ sid \notin dismissed
  /\ dismissed' = dismissed \cup {sid}
  /\ budget' = budget - 1
  /\ lastOp' = [op |-> "dismiss", sessionId |-> sid, arg |-> "ended", sent |-> {}]
  /\ emitted' = <<>>
  /\ published' = <<>>
  /\ UNCHANGED <<pc, running, now, sessions, signals, reconcileRuns, inflight, inserted, uiVars>>

\* variant: the file the endpoint wrote goes into the map and the session is
\* left as it was
SeeDismissed_onlyMap(sid) ==
  /\ running
  /\ Steady
  /\ sid \in dismissed
  /\ dismissed' = dismissed \ {sid}
  /\ signals' = [signals EXCEPT ![sid] = setSignal(signals[sid], "ended", now)]
  /\ lastOp' = [op |-> "applySignal", sessionId |-> sid, arg |-> "ended", sent |-> {}]
  /\ emitted' = <<>>
  /\ published' = <<>>
  /\ UNCHANGED <<pc, running, now, budget, sessions, reconcileRuns, inflight, inserted, uiVars>>

\* signal watcher "add"/"change" for the file the endpoint wrote: handleSignalFile
SeeDismissed(sid) ==
  /\ running
  /\ Steady
  /\ sid \in dismissed
  /\ dismissed' = dismissed \ {sid}
  /\ LET after == signalStep(sessions[sid], "ended")
         recs == signalRecord(sid, sessions[sid], after, "ended")
     IN  /\ sessions' = [sessions EXCEPT ![sid] = after]
         /\ emitted' = recs
         /\ published' = onSession(recs)
  /\ signals' = [signals EXCEPT ![sid] = setSignal(signals[sid], "ended", now)]
  /\ lastOp' = [op |-> "applySignal", sessionId |-> sid, arg |-> "ended", sent |-> {}]
  /\ UNCHANGED <<pc, running, now, budget, reconcileRuns, inflight, uiVars>>
  /\ inserted' = inserted \cup insertedBy(published')

DismissNext ==
  \/ NextFor(LiveSessions)
  \/ \E sid \in LiveSessions, kind \in SignalKinds : SignalRemoved(sid, kind)
  \/ \E sid \in LiveSessions : Dismiss(sid)
  \/ \E sid \in LiveSessions : SeeDismissed(sid)

\* a daemon that is never interrupted: the signal watcher reports the file
\* the endpoint wrote
DismissSpec ==
  /\ Init
  /\ [][DismissNext]_vars
  /\ \A sid \in LiveSessions : WF_vars(SeeDismissed(sid))

\* C32: after a successful dismiss request for a tracked session the session
\* is eventually shown idle (unless its transcript is removed first), and a
\* tracked session stays idle for as long as its ended signal exists,
\* whatever working, permission or stop signals are still held for it.
C32_DismissLeadsToIdle ==
  \A sid \in LiveSessions :
    /\ (sid \in dismissed) ~> (~Live(sid) \/ sessions[sid].status = "idle")
    /\ []((Steady /\ Live(sid) /\ signals[sid]["ended"] # NoSignal)
            => (sessions[sid].status = "idle" /\ ~sessions[sid].visiblePending))

\* a dismissed session whose working file is still there is shown idle
C32_Witness ==
  \E sid \in LiveSessions :
    /\ Live(sid)
    /\ lastOp.op = "applySignal" /\ lastOp.sessionId = sid /\ lastOp.arg = "ended"
    /\ sid \notin dismissed
    /\ budget < MaxInputs - 2
    /\ signals[sid]["working"] # NoSignal
    /\ signals[sid]["ended"] # NoSignal
    /\ sessions[sid].status = "idle"

(* ------------------------- the resting state ---------------------------- *)
\* C33: a session whose turnState is waiting_for_input, or that is created by
\* the step (a new machine starts in waiting_for_input), leaves
\* waiting_for_input only by a USER_PROMPT applied to it: ASSISTANT_STREAMING,
\* ASSISTANT_TOOL_USE, TOOL_RESULT and TURN_END, and every other operation,
\* leave its turnState as it is.
C33_Step(sid) ==
  LET s == sessions[sid]
      n == sessions'[sid]
      atRest == s.phase = "none" \/ (s.phase = "live" /\ s.turnState = "waiting_for_input")
  IN  /\ (atRest /\ n.phase = "live" /\ n.turnState # "waiting_for_input") =>
            (lastOp'.op = "applyEvent" /\ lastOp'.sessionId = sid /\ lastOp'.arg = "USER_PROMPT")
      /\ (/\ atRest /\ n.phase = "live"
          /\ lastOp'.op = "applyEvent" /\ lastOp'.sessionId = sid
          /\ lastOp'.arg \in {"ASSISTANT_STREAMING", "ASSISTANT_TOOL_USE", "TOOL_RESULT", "TURN_END"}) =>
            /\ n.turnState = "waiting_for_input"
            /\ ~n.hasPendingToolUse

C33_RestUntilUserPrompt == [][\A sid \in Sessions : C33_Step(sid)]_vars

\* a tool use reaches a session that is at rest and is ignored
C33_Witness ==
  \E sid \in Sessions :
    /\ Live(sid)
    /\ lastOp.op = "applyEvent" /\ lastOp.sessionId = sid /\ lastOp.arg = "ASSISTANT_TOOL_USE"
    /\ sessions[sid].turnState = "waiting_for_input"
    /\ ~sessions[sid].hasPendingToolUse
    /\ sessions[sid].lastActivityAt < now
    /\ emitted = <<>>

(* --------------------------- the stream --------------------------------- *)
\* C34 as stated: every operation handed to the stream is an insert for a
\* session that has no insert yet, or an update or delete for a session that
\* has one.
C34_Original ==
  [][\A i \in DOMAIN published' :
       LET r == published'[i]
           before == inserted \cup insertedBy(SubSeq(published', 1, i - 1))
       IN  IF r.operation = "insert" THEN r.sessionId \notin before
           ELSE r.sessionId \in before]_vars

(* ------------------------ browser notifications ------------------------ *)
\* a session as the UI receives it, or Absent when the list does not hold it
Absent == [status |-> "absent", hasPendingToolUse |-> FALSE]

SessionRows == [status : {"working", "waiting", "idle"}, hasPendingToolUse : BOOLEAN]

Lists == [Sessions -> SessionRows \cup {Absent}]

\* notifications.ts getEffectiveStatus
notifyEffectiveStatus(session) ==
  IF session.status = "waiting" /\ session.hasPendingToolUse THEN "approval" ELSE session.status

\* the two "continue" exits of the loop body of checkAndNotify
skipped(sid, effectiveStatus) ==
  \/ previousStatus[sid] # "none" /\ previousStatus[sid] = effectiveStatus
  \/ <<sid, effectiveStatus>> \in notifiedSessions

\* the two branches that call notifyApproval or notifyWaiting
notifies(sid, effectiveStatus) ==
  /\ ~skipped(sid, effectiveStatus)
  /\ previousStatus[sid] = "working"
  /\ effectiveStatus \in {"approval", "waiting"}

\* checkAndNotify(sessions) with the permission granted; each session id is
\* in the list once, so the loop bodies do not read what another one wrote
CheckAndNotify(list) ==
  LET present == {sid \in Sessions : list[sid] # Absent}
      eff == [sid \in Sessions |-> notifyEffectiveStatus(list[sid])]
      told == {sid \in present : notifies(sid, eff[sid])}
  IN  /\ shown' = told
      /\ notifiedSessions' = notifiedSessions \cup {<<sid, eff[sid]>> : sid \in told}
      /\ previousStatus' = [sid \in Sessions |->
            IF sid \in present /\ ~skipped(sid, eff[sid]) THEN eff[sid] ELSE previousStatus[sid]]
      /\ lastCall' = [sid \in Sessions |-> IF sid \in present THEN eff[sid] ELSE lastCall[sid]]
      /\ UNCHANGED <<daemonVars, dbInstance, dbPromise, dbBody, callers, created>>

\* the 60 s timer of a notification key
KeyExpires(key) ==
  /\ key \in notifiedSessions
  /\ notifiedSessions' = notifiedSessions \ {key}
  /\ shown' = {}
  /\ UNCHANGED <<daemonVars, previousStatus, lastCall, dbInstance, dbPromise, dbBody, callers, created>>

NotifyNext ==
  \/ \E list \in Lists : CheckAndNotify(list)
  \/ \E key \in Sessions \X {"approval", "waiting"} : KeyExpires(key)

NotifySpec == Init /\ [][NotifyNext]_vars

\* C37 as stated: a call shows a notification for a session only when the
\* session was working in the preceding call that held it and is approval
\* or waiting in this one.
C37_Original ==
  [][\A sid \in shown' :
       /\ lastCall[sid] = "working"
       /\ lastCall'[sid] \in {"approval", "waiting"}]_vars

(* ------------------------ the two effective statuses -------------------- *)
IDLE_TIMEOUT_MS == 60 * 60 * 1000

\* SessionTable.tsx getEffectiveStatus, at time t
tableEffectiveStatus(session, t) ==
  LET elapsed == t - session.lastActivityAt
  IN  IF elapsed > IDLE_TIMEOUT_MS THEN "idle"
      ELSE IF session.status = "working" THEN "working"
      ELSE IF session.status = "waiting" /\ session.hasPendingToolUse THEN "approval"
      ELSE "waiting"

\* C38 as stated: for every session the daemon publishes, the notification
\* module and the session table compute the same effective status.
C38_Original ==
  \A sid \in Sessions :
    Live(sid) =>
      notifyEffectiveStatus(projection(sessions[sid]))
        = tableEffectiveStatus(projection(sessions[sid]), now)

(* --------------------------- the sessions db ---------------------------- *)
\* variant: only dbInstance is looked at before the StreamDB is created
Call_noPromiseCheck(c) ==
  /\ callers[c].state = "idle"
  /\ IF dbInstance # NoDb
     THEN /\ callers' = [callers EXCEPT ![c] = [state |-> "resolved", db |-> dbInstance]]
          /\ UNCHANGED <<dbPromise, dbBody, created>>
     ELSE /\ dbPromise' = "set"
          /\ dbBody' = "creating"
          /\ created' = [created EXCEPT !.createStreamDB = @ + 1]
          /\ callers' = [callers EXCEPT ![c] = [state |-> "awaiting", db |-> NoDb]]
  /\ UNCHANGED <<daemonVars, previousStatus, notifiedSessions, lastCall, shown, dbInstance>>

\* getSessionsDb() up to its return: the instance if there is one, else the
\* promise, which the first such call creates together with its async body;
\* the body runs up to its first await, the call of createStreamDB
Call(c) ==
  /\ callers[c].state = "idle"
  /\ IF dbInstance # NoDb
     THEN /\ callers' = [callers EXCEPT ![c] = [state |-> "resolved", db |-> dbInstance]]
          /\ UNCHANGED <<dbPromise, dbBody, created>>
     ELSE IF dbPromise = "null"
     THEN /\ dbPromise' = "set"
          /\ dbBody' = "creating"
          /\ created' = [created EXCEPT !.createStreamDB = @ + 1]
          /\ callers' = [callers EXCEPT ![c] = [state |-> "awaiting", db |-> NoDb]]
     ELSE /\ callers' = [callers EXCEPT ![c] = [state |-> "awaiting", db |-> NoDb]]
          /\ UNCHANGED <<dbPromise, dbBody, created>>
  /\ UNCHANGED <<daemonVars, previousStatus, notifiedSessions, lastCall, shown, dbInstance>>

\* createStreamDB has resolved: the body calls db.preload()
BodyCreated ==
  /\ dbBody = "creating"
  /\ dbBody' = "preloading"
  /\ created' = [created EXCEPT !.preload = @ + 1]
  /\ UNCHANGED <<daemonVars, previousStatus, notifiedSessions, lastCall, shown, dbInstance,
                 dbPromise, callers>>

\* preload has resolved: the body stores the instance and returns it
BodyPreloaded ==
  /\ dbBody = "preloading"
  /\ dbBody' = "done"
  /\ dbInstance' = created.createStreamDB
  /\ UNCHANGED <<daemonVars, previousStatus, notifiedSessions, lastCall, shown, dbPromise,
                 callers, created>>

\* createStreamDB or preload has rejected: the promise is rejected and stays
BodyFails ==
  /\ dbBody \in {"creating", "preloading"}
  /\ dbBody' = "failed"
  /\ UNCHANGED <<daemonVars, previousStatus, notifiedSessions, lastCall, shown, dbInstance,
                 dbPromise, callers, created>>

\* a caller that awaits the promise goes on once the promise is settled
Settled(c) ==
  /\ callers[c].state = "awaiting"
  /\ dbBody \in {"done", "failed"}
  /\ callers' = [callers EXCEPT ![c] =
        IF dbBody = "done" THEN [state |-> "resolved", db |-> dbInstance]
        ELSE [state |-> "rejected", db |-> NoDb]]
  /\ UNCHANGED <<daemonVars, previousStatus, notifiedSessions, lastCall, shown, dbInstance,
                 dbPromise, dbBody, created>>

DbNext ==
  \/ \E c \in Callers : Call(c)
  \/ BodyCreated
  \/ BodyPreloaded
  \/ BodyFails
  \/ \E c \in Callers : Settled(c)

DbSpec == Init /\ [][DbNext]_vars

\* C39: however the getSessionsDb() calls interleave with the creation of
\* the StreamDB, createStreamDB and preload are each called at most once and
\* every caller that resolves holds the one instance.
C39_SingleInstance ==
  /\ created.createStreamDB <= 1
  /\ created.preload <= 1
  /\ \A c \in Callers :
        callers[c].state = "resolved" => (callers[c].db = dbInstance /\ dbInstance # NoDb)

\* three calls made while the StreamDB was being created: two have resolved
\* to the instance, the third has not been resumed yet
C39_Witness ==
  \E c \in Callers : \E d \in Callers \ {c} : \E e \in Callers \ {c, d} :
    /\ callers[c].state = "resolved" /\ callers[c].db = dbInstance
    /\ callers[d].state = "resolved" /\ callers[d].db = dbInstance
    /\ callers[e].state = "awaiting"
    /\ dbBody = "done"
    /\ created = [createStreamDB |-> 1, preload |-> 1]

====
